---- MODULE Spec2Model ----
(***************************************************************************)
(* A model of the skip list of src/lib.rs: the head sentinel, the nodes    *)
(* with their towers of forward links, the search, insert (upsert), the    *)
(* lookups and the teardown.  Node memory is a heap addressed by small     *)
(* integers; address 0 is the null pointer / Option::None.                 *)
(* Keys and values are integers, as in tests::it_works (SkipList<i32,i32>).*)
(***************************************************************************)
EXTENDS Integers, FiniteSets, Sequences, TLC

\* const MAX_LEVEL: usize = 20
MAX_LEVEL == 20

\* Option::None of Option<NonNull<Node>> and the null pointer of Node::alloc;
\* also the None of Option<&V> returned by the lookups.
None == 0

\* Bounds of the model.
MaxKey == 3
MaxHeads == 1

Keys == 1..MaxKey
\* The values a key is inserted with: i and i + 1 for key i, as tests::it_works
\* does.  V is opaque to the list (no trait bound; no value is ever inspected),
\* so two values per key show every overwrite.
ValsOf(k) == {k, k + 1}
\* Targets of a search: the keys that can be stored and one below, one above.
Targets == 0..(MaxKey + 1)
\* The number of leading heads the random source yields before its first tails.
Heads == 0..MaxHeads
Levels == 0..(MAX_LEVEL - 1)

\* mem::size_of of the parts of a node (K = V = i32, 64-bit target).
SizeOfK == 4
SizeOfV == 4
SizeOfLayout == 16
SizeOfLink == 8
NodeAlign == 16

VARIABLES
    phase,    \* "none" before new(), "live", "panicked", "dropping", "dropped"
    head,     \* SkipList.head
    size,     \* SkipList.size
    level,    \* SkipList.level
    nodes,    \* the addresses the allocator has handed out
    key,      \* Node.key of each allocated node ("uninit" for the sentinel)
    val,      \* Node.val of each allocated node ("uninit" for the sentinel)
    layout,   \* Node.layout of each allocated node
    tower,    \* Node.tower of each allocated node: slot index -> address or None
    freed,    \* how many times dealloc was called on each allocated node
    uaf,      \* a node's tower or layout was read after its dealloc
    dx,       \* drop's cursor x
    drawn,    \* how many times rand_lvl was called
    shadow,   \* key -> the value of the most recent completed insert, or None
    lastOp,   \* the last call: its name, arguments, result, allocation outcome
    calls,    \* caller -> the position and locals of its insert, run step by step
    rl,       \* a run of rand_lvl flip by flip: position, level, flips made
    nl        \* a node type handed to Node::alloc: sizes, alignments, height

vars == <<phase, head, size, level, nodes, key, val, layout, tower, freed, uaf,
          dx, drawn, shadow, lastOp, calls, rl, nl>>

\* The variables of the list and of its whole calls.
callVars == <<phase, head, size, level, nodes, key, val, layout, tower, freed,
              uaf, dx, drawn, shadow, lastOp>>

\* The variables of the step-by-step runs; the whole-call actions leave them alone.
stepVars == <<calls, rl, nl>>

listVars == <<head, size, level, nodes, key, val, layout, tower>>

\* A call as recorded in lastOp: `hit` says that insert found the key present,
\* `allocFail` that the allocator returned null during the call.
Op(name, k, v, r, hit, fail) ==
    [op |-> name, key |-> k, val |-> v, res |-> r, hit |-> hit, allocFail |-> fail]

----------------------------------------------------------------------------
\* Node::alloc, Node::new, Node::new_uninit

\* The size Node::alloc asks the allocator for, for a key type of size ks and
\* a value type of size vs: the sum of the sizes, with no padding.
AllocSizeOf(ks, vs, height) ==
    ks + vs + SizeOfLayout + height * SizeOfLink

\* The same for the key and value types of the list model.
AllocSize(height) == AllocSizeOf(SizeOfK, SizeOfV, height)

\* The layout of #[repr(C)] struct Node<K, V> { key, val, layout, tower }:
\* each field at the next multiple of its alignment.
AlignOfLayout == 8
AlignOfLink == 8

AlignUp(off, a) == ((off + a - 1) \div a) * a

OffsetOfVal(ks, va) == AlignUp(ks, va)

OffsetOfLayout(ks, vs, va) == AlignUp(OffsetOfVal(ks, va) + vs, AlignOfLayout)

OffsetOfTower(ks, vs, va) ==
    AlignUp(OffsetOfLayout(ks, vs, va) + SizeOfLayout, AlignOfLink)

\* Key and value types as <<size, alignment>>: (), u8, [u8; 3], u16, u32,
\* [u32; 3], u64, (u64, u64), u128.
Shapes == {<<0, 1>>, <<1, 1>>, <<3, 1>>, <<2, 2>>, <<4, 4>>, <<12, 4>>,
           <<8, 8>>, <<16, 8>>, <<16, 16>>}

\* EmptyTower one slot short: room for height - 1 links.
EmptyTowerShort(height) == [i \in 0..(height - 2) |-> None]

\* The tower Node::alloc initialises: `height` slots, all None.
EmptyTower(height) == [i \in 0..(height - 1) |-> None]

\* The pointer Node::alloc returns: null when the allocator fails, else a
\* fresh address.  No field is written through a null pointer.
NodeAlloc(ok) == IF ok THEN Cardinality(nodes) + 1 ELSE None

\* Node::new and Node::new_uninit: None for a null pointer, else NonNull.
NodeNew(ok) == NodeAlloc(ok)

----------------------------------------------------------------------------
\* rand_lvl, with the random source given as its number of leading heads.

RECURSIVE RandLoop(_, _)
RandLoop(lvl, heads) ==
    IF lvl < MAX_LEVEL /\ heads > 0 THEN RandLoop(lvl + 1, heads - 1) ELSE lvl

rand_lvl(heads) == RandLoop(1, heads)

\* rand_lvl flip by flip.  The random source is given by `src`, the number of
\* leading heads it yields: its j-th draw satisfies `% 2 == 0` iff j <= src.
MaxSrcHeads == 22

RandHeads(j, src) == j <= src

\* RandGuard that lets the loop run once more at MAX_LEVEL.
RandGuardLe(lvl) == lvl <= MAX_LEVEL

\* `level < MAX_LEVEL`, the left operand of the loop condition.
RandGuard(lvl) == lvl < MAX_LEVEL

----------------------------------------------------------------------------
\* find_gt_or_eq_node

\* Advance with the comparison `<=` in place of `<`.
RECURSIVE AdvanceLe(_, _, _)
AdvanceLe(x, i, k) ==
    LET nxt == tower[x][i]
    IN  IF nxt # None /\ key[nxt] <= k THEN AdvanceLe(nxt, i, k) ELSE x

\* The inner while loop at level i, started at node x.
RECURSIVE Advance(_, _, _)
Advance(x, i, k) ==
    LET nxt == tower[x][i]
    IN  IF nxt # None /\ key[nxt] < k THEN Advance(nxt, i, k) ELSE x

\* Descend that records the predecessor before the while loop has advanced.
RECURSIVE DescendRecordEarly(_, _, _, _)
DescendRecordEarly(x, n, k, update) ==
    IF n = 0
    THEN [x |-> x, update |-> update]
    ELSE LET y == Advance(x, n - 1, k)
         IN  DescendRecordEarly(y, n - 1, k, [update EXCEPT ![n - 1] = x])

\* The for loop over the levels n-1, n-2, ..., 0, started at node x.
RECURSIVE Descend(_, _, _, _)
Descend(x, n, k, update) ==
    IF n = 0
    THEN [x |-> x, update |-> update]
    ELSE LET y == Advance(x, n - 1, k)
         IN  Descend(y, n - 1, k, [update EXCEPT ![n - 1] = y])

find_gt_or_eq_node(k) ==
    LET r == Descend(head, level, k, [i \in Levels |-> None])
    IN  [node |-> tower[r.x][0], update |-> r.update]

----------------------------------------------------------------------------
\* get, get_mut, len

\* get without the comparison of the found node's key with the target.
getNoCheck(k) ==
    LET f == find_gt_or_eq_node(k)
    IN  IF f.node # None THEN val[f.node] ELSE None

get(k) ==
    LET f == find_gt_or_eq_node(k)
    IN  IF f.node # None
        THEN IF key[f.node] = k THEN val[f.node] ELSE None
        ELSE None

get_mut(k) ==
    LET f == find_gt_or_eq_node(k)
    IN  IF f.node # None
        THEN IF key[f.node] = k THEN val[f.node] ELSE None
        ELSE None

len == size

----------------------------------------------------------------------------
\* No list has been constructed yet.
InitList ==
    /\ phase = "none"
    /\ head = None
    /\ size = 0
    /\ level = 0
    /\ nodes = {}
    /\ key = <<>>
    /\ val = <<>>
    /\ layout = <<>>
    /\ tower = <<>>
    /\ freed = <<>>
    /\ uaf = FALSE
    /\ dx = None
    /\ drawn = 0
    /\ shadow = [k \in Keys |-> None]
    /\ lastOp = Op("init", None, None, None, FALSE, FALSE)

Init ==
    /\ InitList
    /\ calls = <<>>
    /\ rl = None
    /\ nl = None

\* Node::alloc's size computation for a node type and a height.
InitLayout ==
    /\ InitList
    /\ calls = <<>>
    /\ rl = None
    /\ nl \in {[pc |-> "alloc", ksize |-> k[1], kalign |-> k[2], vsize |-> v[1],
                valign |-> v[2], height |-> h, size |-> 0] :
                   k \in Shapes, v \in Shapes, h \in 1..MAX_LEVEL}

\* `let size = ...; Layout::from_size_align(size, 16)`
AllocCompute ==
    /\ nl.pc = "alloc"
    /\ nl' = [nl EXCEPT !.pc = "done",
                        !.size = AllocSizeOf(nl.ksize, nl.vsize, nl.height)]
    /\ UNCHANGED <<callVars, calls, rl>>

NextLayout == AllocCompute

SpecLayout == InitLayout /\ [][NextLayout]_vars

\* A run of rand_lvl, flip by flip.
InitRand ==
    /\ InitList
    /\ calls = <<>>
    /\ nl = None
    /\ rl \in {[pc |-> "loop", level |-> 1, flips |-> 0, src |-> h] : h \in 0..MaxSrcHeads}

\* The loop condition holds its left operand: the source is drawn from; on
\* heads `level += 1`, on tails the loop ends.
RandFlip ==
    /\ rl.pc = "loop"
    /\ RandGuard(rl.level)
    /\ rl' = IF RandHeads(rl.flips + 1, rl.src)
             THEN [rl EXCEPT !.level = @ + 1, !.flips = @ + 1]
             ELSE [rl EXCEPT !.flips = @ + 1, !.pc = "done"]
    /\ UNCHANGED <<callVars, calls, nl>>

\* `level < MAX_LEVEL` is false: `&&` does not evaluate the draw, the loop ends.
RandExit ==
    /\ rl.pc = "loop"
    /\ ~RandGuard(rl.level)
    /\ rl' = [rl EXCEPT !.pc = "done"]
    /\ UNCHANGED <<callVars, calls, nl>>

NextRand ==
    \/ RandFlip
    \/ RandExit

\* The loop is sequential code: it takes its next step.
SpecRand == InitRand /\ [][NextRand]_vars /\ WF_vars(NextRand)

----------------------------------------------------------------------------
\* SkipList::new
new(ok) ==
    /\ phase = "none"
    /\ LET h == NodeNew(ok)
       IN  IF h = None
           THEN \* unwrap of None
                /\ phase' = "panicked"
                /\ lastOp' = Op("new", None, None, None, FALSE, TRUE)
                /\ UNCHANGED <<listVars, freed>>
           ELSE /\ phase' = "live"
                /\ head' = h
                /\ size' = 0
                /\ level' = 1
                /\ nodes' = nodes \cup {h}
                /\ key' = (h :> "uninit") @@ key
                /\ val' = (h :> "uninit") @@ val
                /\ layout' = (h :> [size |-> AllocSize(MAX_LEVEL), align |-> NodeAlign]) @@ layout
                /\ tower' = (h :> EmptyTower(MAX_LEVEL)) @@ tower
                /\ freed' = (h :> 0) @@ freed
                /\ lastOp' = Op("new", None, None, None, FALSE, FALSE)
    /\ UNCHANGED <<uaf, dx, drawn, shadow, stepVars>>

----------------------------------------------------------------------------
\* SkipList::insert

\* Hit without the equality test: every insert takes the new-node path.
HitNever(f, k) == FALSE

\* `if let Some(node_ptr) = find ... { if node.key == key`: the key is present.
Hit(f, k) == f.node # None /\ key[f.node] = k

\* Overwrite that also counts the call: `self.size += 1` before the return.
OverwriteCounting(n, v) ==
    /\ val' = [val EXCEPT ![n] = v]
    /\ size' = size + 1
    /\ UNCHANGED <<phase, head, level, nodes, key, layout, tower, freed, drawn>>

\* Overwrite that keeps the stored value: the second insert of a key is lost.
OverwriteKeep(n, v) ==
    UNCHANGED <<val, phase, head, size, level, nodes, key, layout, tower, freed, drawn>>

\* `node.val = val; return`. The value of the found node is overwritten.
Overwrite(n, v) ==
    /\ val' = [val EXCEPT ![n] = v]
    /\ UNCHANGED <<phase, head, size, level, nodes, key, layout, tower, freed, drawn>>

\* ExtendUpdate starting one level too high: `for i in self.level + 1..level`.
ExtendUpdateOffByOne(update, lvl) ==
    [i \in Levels |-> IF lvl > level /\ level < i /\ i < lvl THEN head ELSE update[i]]

\* `if level > self.level { for i in self.level..level { update[i] = Some(head) } }`
ExtendUpdate(update, lvl) ==
    [i \in Levels |-> IF lvl > level /\ level <= i /\ i < lvl THEN head ELSE update[i]]

\* `if level > self.level { ...; self.level = level }`
RaiseLevel(lvl) == IF lvl > level THEN lvl ELSE level

\* SpliceStep with its two writes in the other order: the predecessor is
\* repointed first, so the new node's link is read from the repointed slot.
SpliceStepSwapped(tw, x, update, i) ==
    IF update[i] = None \/ x = None
    THEN [tower |-> tw, panic |-> TRUE]
    ELSE LET p   == update[i]
             tw1 == [tw EXCEPT ![p][i] = x]
             tw2 == [tw1 EXCEPT ![x][i] = tw1[p][i]]
         IN  [tower |-> tw2, panic |-> FALSE]

\* SpliceStep that leaves the new node's own link empty.
SpliceStepNoTail(tw, x, update, i) ==
    IF update[i] = None \/ x = None
    THEN [tower |-> tw, panic |-> TRUE]
    ELSE [tower |-> [tw EXCEPT ![update[i]][i] = x], panic |-> FALSE]

\* SpliceStep that does not unwrap x: a None x is stored like any link and
\* the loop goes on.
SpliceStepUnchecked(tw, x, update, i) ==
    IF update[i] = None
    THEN [tower |-> tw, panic |-> TRUE]
    ELSE LET p   == update[i]
             tw1 == IF x = None THEN tw ELSE [tw EXCEPT ![x][i] = tw[p][i]]
             tw2 == [tw1 EXCEPT ![p][i] = x]
         IN  [tower |-> tw2, panic |-> FALSE]

\* One pass of the splice loop, at index i, on the towers tw:
\*   x.unwrap().tower[i] = update[i].unwrap().tower[i];  update[i].unwrap().tower[i] = x
\* The assigned value is evaluated first, so update[i] is unwrapped before x;
\* an unwrap of None panics before anything is written.
SpliceStep(tw, x, update, i) ==
    IF update[i] = None \/ x = None
    THEN [tower |-> tw, panic |-> TRUE]
    ELSE LET p   == update[i]
             tw1 == [tw EXCEPT ![x][i] = tw[p][i]]
             tw2 == [tw1 EXCEPT ![p][i] = x]
         IN  [tower |-> tw2, panic |-> FALSE]

\* `for i in 0..level`, from index i on.
RECURSIVE Splice(_, _, _, _, _)
Splice(tw, x, update, i, lvl) ==
    IF i >= lvl
    THEN [tower |-> tw, panic |-> FALSE]
    ELSE LET s == SpliceStep(tw, x, update, i)
         IN  IF s.panic THEN s ELSE Splice(s.tower, x, update, i + 1, lvl)

\* Grow by two.
GrowTwice(s) == s + 2

\* Grow without the increment.
GrowNot(s) == s

\* `self.size += 1`
Grow(s) == s + 1

\* The rest of insert once the key was found absent: draw a height, raise the
\* level, allocate the node, splice it in, count it.
InsertNew(update0, k, v, heads, ok) ==
    LET lvl    == rand_lvl(heads)
        update == ExtendUpdate(update0, lvl)
        x      == NodeNew(ok)
        tw0    == IF x = None THEN tower ELSE (x :> EmptyTower(lvl)) @@ tower
        s      == Splice(tw0, x, update, 0, lvl)
    IN  /\ drawn' = drawn + 1
        /\ level' = RaiseLevel(lvl)
        /\ IF x = None
           THEN UNCHANGED <<nodes, key, val, layout, freed>>
           ELSE /\ nodes' = nodes \cup {x}
                /\ key' = (x :> k) @@ key
                /\ val' = (x :> v) @@ val
                /\ layout' = (x :> [size |-> AllocSize(lvl), align |-> NodeAlign]) @@ layout
                /\ freed' = (x :> 0) @@ freed
        /\ tower' = s.tower
        /\ IF s.panic
           THEN phase' = "panicked" /\ size' = size
           ELSE phase' = phase /\ size' = Grow(size)
        /\ UNCHANGED head

\* The height drawn and the allocator's answer are consumed only when the key
\* is absent.
insert(k, v) ==
    /\ phase = "live"
    /\ LET f == find_gt_or_eq_node(k)
       IN  IF Hit(f, k)
           THEN /\ Overwrite(f.node, v)
                /\ lastOp' = Op("insert", k, v, None, TRUE, FALSE)
           ELSE \E heads \in Heads, ok \in BOOLEAN :
                    /\ InsertNew(f.update, k, v, heads, ok)
                    /\ lastOp' = Op("insert", k, v, None, FALSE, ~ok)
    /\ shadow' = IF phase' = "live" THEN [shadow EXCEPT ![k] = v] ELSE shadow
    /\ UNCHANGED <<uaf, dx, stepVars>>

----------------------------------------------------------------------------
\* SkipList::insert step by step: the search, the overwrite, the draw with the
\* allocation, then every read and write of a link and of size on its own.
\* One caller is the single owner, whose calls run one after the other; two
\* callers share the list with no lock, their steps interleaved.

Callers == {1, 2}

\* The calls of unlocked callers that may get as far as drawing a height (the
\* single owner's draws are bounded by the keys).
MaxDraws == 2

Idle ==
    [pc |-> "idle", key |-> None, val |-> None, update |-> [i \in Levels |-> None],
     lvl |-> 0, x |-> None, i |-> 0, w |-> 1, tmp |-> None]

InitSteps ==
    /\ InitList
    /\ rl = None
    /\ nl = None
    /\ calls \in {[c \in {1} |-> Idle], [c \in Callers |-> Idle]}

\* The two writes of a splice pass in the order the pass makes them, the other
\* way round.
SpliceOrderSwapped == <<"relink", "link">>

\* The two writes of a splice pass in the order the pass makes them:
\* `x.tower[i] = ...` (link), then `update[i].tower[i] = x` (relink).
SpliceOrder == <<"link", "relink">>

\* find_gt_or_eq_node and the test of the found node's key.
StepFind(c, k, v) ==
    /\ phase = "live"
    /\ calls[c].pc = "idle"
    /\ LET f == find_gt_or_eq_node(k)
       IN  /\ \/ DOMAIN calls = {1}
              \/ Hit(f, k)
              \/ drawn + Cardinality({d \in DOMAIN calls : calls[d].pc = "draw"}) < MaxDraws
           /\ calls' = [calls EXCEPT ![c] =
              IF Hit(f, k)
              THEN [Idle EXCEPT !.pc = "overwrite", !.key = k, !.val = v, !.x = f.node]
              ELSE [Idle EXCEPT !.pc = "draw", !.key = k, !.val = v, !.update = f.update]]
    /\ UNCHANGED <<callVars, rl, nl>>

\* `node.val = val; return`
StepOverwrite(c) ==
    /\ phase = "live"
    /\ calls[c].pc = "overwrite"
    /\ val' = [val EXCEPT ![calls[c].x] = calls[c].val]
    /\ calls' = [calls EXCEPT ![c] = Idle]
    /\ UNCHANGED <<phase, head, size, level, nodes, key, layout, tower, freed,
                   uaf, dx, drawn, shadow, lastOp, rl, nl>>

\* `let level = rand_lvl(); if level > self.level { ... }; let x = Node::new(..)`
StepDraw(c, heads, ok) ==
    /\ phase = "live"
    /\ calls[c].pc = "draw"
    /\ LET lvl == rand_lvl(heads)
           x   == NodeNew(ok)
       IN  /\ level' = RaiseLevel(lvl)
           /\ drawn' = drawn + 1
           /\ calls' = [calls EXCEPT ![c] =
                  [@ EXCEPT !.pc = "read", !.lvl = lvl, !.x = x, !.i = 0, !.w = 1,
                            !.update = ExtendUpdate(calls[c].update, lvl)]]
           /\ IF x = None
              THEN UNCHANGED <<nodes, key, val, layout, tower, freed>>
              ELSE /\ nodes' = nodes \cup {x}
                   /\ key' = (x :> calls[c].key) @@ key
                   /\ val' = (x :> calls[c].val) @@ val
                   /\ layout' = (x :> [size |-> AllocSize(lvl), align |-> NodeAlign]) @@ layout
                   /\ tower' = (x :> EmptyTower(lvl)) @@ tower
                   /\ freed' = (x :> 0) @@ freed
    /\ UNCHANGED <<phase, head, size, uaf, dx, shadow, lastOp, rl, nl>>

\* The assigned value of the pass, `update[i].unwrap().tower[i]`, is read; then
\* `x.unwrap()`.  An unwrap of None panics.
StepRead(c) ==
    /\ phase = "live"
    /\ calls[c].pc = "read"
    /\ LET r == calls[c]
       IN  IF r.update[r.i] = None \/ r.x = None
           THEN /\ phase' = "panicked"
                /\ UNCHANGED calls
           ELSE /\ calls' = [calls EXCEPT ![c] =
                       [@ EXCEPT !.pc = "write", !.w = 1, !.tmp = tower[r.update[r.i]][r.i]]]
                /\ UNCHANGED phase
    /\ UNCHANGED <<head, size, level, nodes, key, val, layout, tower, freed,
                   uaf, dx, drawn, shadow, lastOp, rl, nl>>

\* One write of the pass: the new node's link gets the value read, or the
\* predecessor's link gets the new node.  After the second write the loop
\* goes to the next index, or on to `self.size += 1`.
StepWrite(c) ==
    /\ phase = "live"
    /\ calls[c].pc = "write"
    /\ LET r == calls[c]
       IN  /\ tower' = IF SpliceOrder[r.w] = "link"
                       THEN [tower EXCEPT ![r.x][r.i] = r.tmp]
                       ELSE [tower EXCEPT ![r.update[r.i]][r.i] = r.x]
           /\ calls' = [calls EXCEPT ![c] =
                  IF r.w = 1 THEN [@ EXCEPT !.w = 2]
                  ELSE IF r.i + 1 < r.lvl
                       THEN [@ EXCEPT !.pc = "read", !.i = r.i + 1, !.w = 1]
                       ELSE [@ EXCEPT !.pc = "size", !.w = 1]]
    /\ UNCHANGED <<phase, head, size, level, nodes, key, val, layout, freed,
                   uaf, dx, drawn, shadow, lastOp, rl, nl>>

\* `self.size += 1`: size is read ...
StepSizeRead(c) ==
    /\ phase = "live"
    /\ calls[c].pc = "size"
    /\ calls' = [calls EXCEPT ![c] = [@ EXCEPT !.pc = "sizew", !.tmp = size]]
    /\ UNCHANGED <<callVars, rl, nl>>

\* ... and written back, one larger.
StepSizeWrite(c) ==
    /\ phase = "live"
    /\ calls[c].pc = "sizew"
    /\ size' = Grow(calls[c].tmp)
    /\ calls' = [calls EXCEPT ![c] = Idle]
    /\ UNCHANGED <<phase, head, level, nodes, key, val, layout, tower, freed,
                   uaf, dx, drawn, shadow, lastOp, rl, nl>>

NextSteps ==
    \/ \E ok \in BOOLEAN : new(ok)
    \/ \E c \in DOMAIN calls : \E k \in Keys : \E v \in ValsOf(k) : StepFind(c, k, v)
    \/ \E c \in DOMAIN calls : StepOverwrite(c)
    \/ \E c \in DOMAIN calls : \E heads \in Heads, ok \in BOOLEAN : StepDraw(c, heads, ok)
    \/ \E c \in DOMAIN calls : StepRead(c)
    \/ \E c \in DOMAIN calls : StepWrite(c)
    \/ \E c \in DOMAIN calls : StepSizeRead(c)
    \/ \E c \in DOMAIN calls : StepSizeWrite(c)

SpecSteps == InitSteps /\ [][NextSteps]_vars

\* The single owner alone.
InitSplice ==
    /\ InitSteps
    /\ DOMAIN calls = {1}

SpecSplice == InitSplice /\ [][NextSteps]_vars

----------------------------------------------------------------------------
\* SkipList::get and SkipList::get_mut as calls: the result is recorded.

Get(k) ==
    /\ phase = "live"
    /\ lastOp' = Op("get", k, None, get(k), FALSE, FALSE)
    /\ UNCHANGED <<phase, listVars, freed, uaf, dx, drawn, shadow, stepVars>>

\* GetMut as get-or-insert: a miss stores the key, one level tall, with its
\* first value.
GetMutOrInsert(k) ==
    /\ phase = "live"
    /\ LET f == find_gt_or_eq_node(k)
       IN  IF Hit(f, k)
           THEN UNCHANGED <<phase, listVars, freed, drawn>>
           ELSE InsertNew(f.update, k, k, 0, TRUE)
    /\ lastOp' = Op("get_mut", k, None, get_mut(k), FALSE, FALSE)
    /\ UNCHANGED <<uaf, dx, shadow, stepVars>>

GetMut(k) ==
    /\ phase = "live"
    /\ lastOp' = Op("get_mut", k, None, get_mut(k), FALSE, FALSE)
    /\ UNCHANGED <<phase, listVars, freed, uaf, dx, drawn, shadow, stepVars>>

----------------------------------------------------------------------------
\* Drop for SkipList

\* DropNode that releases the node before it reads its successor.
DropNodeFreeFirst(n, fr) ==
    LET fr1 == [fr EXCEPT ![n] = @ + 1]
        t   == tower[n][0]
    IN  [t |-> t, uaf |-> fr1[n] > 0, freed |-> fr1]

\* One pass of the while loop on node n, with the release counts fr:
\* the successor and the layout are read, then the node is released.
DropNode(n, fr) ==
    LET t == tower[n][0]
    IN  [t |-> t, uaf |-> fr[n] > 0, freed |-> [fr EXCEPT ![n] = @ + 1]]

\* `let mut x = self.head.tower[0]`. The list is dropped when its owner lets
\* go of it, or while a panic of insert unwinds.
DropStart ==
    /\ phase \in {"live", "panicked"}
    /\ head # None
    /\ phase' = "dropping"
    /\ dx' = tower[head][0]
    /\ uaf' = (uaf \/ freed[head] > 0)
    /\ lastOp' = Op("drop", None, None, None, FALSE, FALSE)
    /\ UNCHANGED <<listVars, freed, drawn, shadow, stepVars>>

\* `while let Some(node_ptr) = x { ... }`
DropStep ==
    /\ phase = "dropping"
    /\ dx # None
    /\ LET d == DropNode(dx, freed)
       IN  /\ dx' = d.t
           /\ uaf' = (uaf \/ d.uaf)
           /\ freed' = d.freed
    /\ UNCHANGED <<phase, listVars, drawn, shadow, lastOp, stepVars>>

\* `dealloc(self.head, self.head.layout)`
DropHead ==
    /\ phase = "dropping"
    /\ dx = None
    /\ phase' = "dropped"
    /\ uaf' = (uaf \/ freed[head] > 0)
    /\ freed' = [freed EXCEPT ![head] = @ + 1]
    /\ UNCHANGED <<listVars, dx, drawn, shadow, lastOp, stepVars>>

----------------------------------------------------------------------------
Next ==
    \/ \E ok \in BOOLEAN : new(ok)
    \/ \E k \in Keys : \E v \in ValsOf(k) : insert(k, v)
    \/ \E k \in Keys : Get(k)
    \/ \E k \in Keys : GetMut(k)
    \/ DropStart
    \/ DropStep
    \/ DropHead

Spec == Init /\ [][Next]_vars

----------------------------------------------------------------------------
\* The list as its states show it.

\* The real (non-sentinel) nodes.
Real == nodes \ {head}

\* The list exists and no teardown has begun: a state between operations.
Settled == phase \in {"live", "panicked"} /\ head # None

\* The nodes met following level-i links from n, at most `fuel` of them.
RECURSIVE Walk(_, _, _)
Walk(n, i, fuel) ==
    IF n = None \/ fuel = 0 THEN <<>> ELSE <<n>> \o Walk(tower[n][i], i, fuel - 1)

\* The level-i chain from the head.
Chain(i) == Walk(tower[head][i], i, Cardinality(nodes) + 1)

\* The keys that a completed insert has stored.
Inserted == {k \in Keys : shadow[k] # None}

\* The real node with the smallest key >= t, or None.
Ceiling(t) ==
    LET S == {n \in Real : key[n] >= t}
    IN  IF S = {} THEN None ELSE CHOOSE n \in S : \A m \in S : key[n] <= key[m]

----------------------------------------------------------------------------
\* C1: after any sequence of inserts, len() is the number of distinct keys
\* that were inserted.
C1_LenCountsDistinctKeys ==
    phase = "live" => len = Cardinality(Inserted)

\* Three distinct keys are in, and the last call overwrote one of them.
C1_Witness ==
    /\ phase = "live"
    /\ len = 3
    /\ lastOp.op = "insert" /\ lastOp.hit

\* C5: the keys met walking level 0 from the head are strictly increasing,
\* and no two real nodes hold the same key.
C5_Level0StrictlyIncreasing ==
    Settled =>
        LET c == Chain(0)
        IN  /\ \A j \in 1..(Len(c) - 1) : key[c[j]] < key[c[j + 1]]
            /\ \A a, b \in Real : a # b => key[a] # key[b]

\* Three nodes on the chain, the first allocated of them not the smallest.
C5_Witness ==
    /\ Settled
    /\ Len(Chain(0)) = 3
    /\ \E a, b \in Real : a < b /\ key[a] > key[b]

\* C6: size is the number of real nodes reachable from the head at level 0.
C6_SizeIsChainLength ==
    Settled => size = Len(Chain(0))

\* Two nodes counted, one of them two levels tall.
C6_Witness ==
    /\ Settled
    /\ size = 2
    /\ level = 2

\* C10: find_gt_or_eq_node returns the real node with the smallest key >= the
\* target, or None when every real key is smaller (also on the empty list).
C10_FindReturnsCeiling ==
    phase = "live" =>
        \A t \in Targets : find_gt_or_eq_node(t).node = Ceiling(t)

\* A search that skips a node on level 1 and ends on the third node of three.
C10_Witness ==
    /\ phase = "live"
    /\ size = 3
    /\ \E t \in Targets :
          LET c == Chain(0)
          IN  /\ find_gt_or_eq_node(t).node = c[3]
              /\ tower[head][1] = c[2]

\* C2: for every key inserted at least once, get and get_mut return the value
\* of the most recent insert of that key, whatever inserts of other keys came
\* after it (shadow[k] is written by the inserts of k alone).
C2_GetReturnsLatestValue ==
    phase = "live" =>
        \A k \in Inserted : get(k) = shadow[k] /\ get_mut(k) = shadow[k]

\* Key 2, stored between the keys 1 and 3, has just been inserted again, with
\* value 3, and get(2) is 3.
C2_Witness ==
    /\ phase = "live"
    /\ Inserted = Keys
    /\ lastOp.op = "insert" /\ lastOp.hit /\ lastOp.key = 2 /\ lastOp.val = 3
    /\ get(2) = 3 /\ get_mut(2) = 3

\* C3: get returns absent for every key that was never inserted; on a freshly
\* constructed list get returns absent for every key and len() is 0.
C3_AbsentKeysAreAbsent ==
    phase = "live" =>
        /\ \A t \in Targets \ Inserted : get(t) = None /\ get_mut(t) = None
        /\ lastOp.op = "new" =>
              len = 0 /\ \A t \in Targets : get(t) = None /\ get_mut(t) = None

\* Key 2 is missing between the stored keys 1 and 3: the search for 2 ends on
\* a real node, whose key differs.
C3_Witness ==
    /\ phase = "live"
    /\ Inserted = {1, 3}
    /\ find_gt_or_eq_node(2).node # None
    /\ lastOp.op = "get" /\ lastOp.key = 2 /\ lastOp.res = None

\* The key is held by a real node.
Present(k) == \E n \in Real : key[n] = k

\* C4: insert of a key that is already present changes only the value of the
\* node with that key: no node is allocated, no height is drawn, and size,
\* level, every link and every other node's key and value stay as they were.
C4_UpsertChangesOnlyTheValue ==
    [][(phase = "live" /\ lastOp'.op = "insert" /\ Present(lastOp'.key)) =>
          /\ nodes' = nodes
          /\ drawn' = drawn
          /\ size' = size
          /\ level' = level
          /\ head' = head
          /\ tower' = tower
          /\ key' = key
          /\ layout' = layout
          /\ \A n \in nodes : (n = head \/ key[n] # lastOp'.key) => val'[n] = val[n]
          /\ \A n \in Real : key[n] = lastOp'.key => val'[n] = lastOp'.val
      ]_vars

\* The middle key of three, stored with value 2, has just been given value 3.
C4_Witness ==
    /\ phase = "live"
    /\ size = 3
    /\ level = 2
    /\ lastOp.op = "insert" /\ lastOp.hit /\ lastOp.key = 2 /\ lastOp.val = 3
    /\ shadow = [k \in Keys |-> IF k = 2 THEN 3 ELSE k]

\* C7: get and get_mut change nothing: size, level, the set of nodes, every
\* key, value and link are after the call as before it, key present or not.
C7_LookupsChangeNothing ==
    [][(lastOp'.op \in {"get", "get_mut"}) =>
          /\ UNCHANGED <<head, size, level, nodes, key, val, layout, tower>>
          /\ UNCHANGED <<phase, freed, drawn>>
      ]_vars

\* A get_mut that missed on a list of two nodes.
C7_Witness ==
    /\ phase = "live"
    /\ size = 2
    /\ lastOp.op = "get_mut" /\ lastOp.res = None /\ ~Present(lastOp.key)

\* C8: when the allocator returns null during new() or during the insert of
\* an absent key, the call panics: nothing is written through the null
\* pointer, no link is changed and size is not incremented.
C8_AllocFailurePanics ==
    /\ [](None \notin nodes)
    /\ [][(lastOp'.allocFail /\ phase \in {"none", "live"}) =>
            /\ phase' = "panicked"
            /\ UNCHANGED <<head, size, nodes, key, val, layout, tower>>
         ]_vars

\* The allocator failed in an insert between two stored nodes, on a list that
\* already uses two levels.
C8_Witness ==
    /\ phase = "panicked"
    /\ lastOp.op = "insert" /\ lastOp.allocFail /\ lastOp.key = 2
    /\ size = 2
    /\ Len(Chain(1)) = 2

\* C9: when the list is dropped, every real node and the head are released
\* exactly once, and no node's links or layout are read after its release.
C9_DropReleasesEachNodeOnce ==
    /\ ~uaf
    /\ \A n \in nodes : freed[n] <= 1
    /\ phase = "dropped" => \A n \in nodes : freed[n] = 1
    /\ phase \in {"none", "live", "panicked"} => \A n \in nodes : freed[n] = 0

\* The drop of a list of three nodes has finished.
C9_Witness ==
    /\ phase = "dropped"
    /\ Cardinality(nodes) = 4
    /\ \A n \in nodes : freed[n] = 1

----------------------------------------------------------------------------
\* The nodes of a sequence, as a set.
Range(c) == {c[j] : j \in 1..Len(c)}

\* The keys along a sequence of real nodes are strictly increasing.
Increasing(c) == \A j \in 1..(Len(c) - 1) : key[c[j]] < key[c[j + 1]]

\* a is b with some of its entries left out.
RECURSIVE IsSubseq(_, _)
IsSubseq(a, b) ==
    IF a = <<>> THEN TRUE
    ELSE IF b = <<>> THEN FALSE
    ELSE IF Head(a) = Head(b) THEN IsSubseq(Tail(a), Tail(b))
    ELSE IsSubseq(a, Tail(b))

\* The last node of the level-i chain with a key below t, or the head.
Predecessor(i, t) ==
    LET c == Chain(i)
        S == {j \in 1..Len(c) : key[c[j]] < t}
    IN  IF S = {} THEN head ELSE c[CHOOSE j \in S : \A m \in S : m <= j]

\* C11: after find_gt_or_eq_node(target), update[i] is for every i below the
\* list's level the last node of the level-i chain with a key below the
\* target, and the head when there is none; on an empty list every recorded
\* predecessor is the head.
C11_UpdateHoldsPredecessors ==
    phase = "live" =>
        \A t \in Targets :
            LET update == find_gt_or_eq_node(t).update
            IN  \A i \in 0..(level - 1) :
                    /\ update[i] = Predecessor(i, t)
                    /\ size = 0 => update[i] = head

\* A search on three nodes whose level-1 predecessor is a real node and whose
\* level-0 predecessor is a later one.
C11_Witness ==
    /\ phase = "live"
    /\ size = 3
    /\ level = 2
    /\ \E t \in Targets :
          LET u == find_gt_or_eq_node(t).update
          IN  u[1] # head /\ u[0] # u[1] /\ u[0] # head

\* C12: for every level i the level-i chain has strictly increasing keys and
\* is a subsequence of the level-0 chain, and every node on it is on every
\* chain below level i.
C12_ChainsAreNestedSubsequences ==
    Settled =>
        \A i \in Levels :
            LET c == Chain(i)
                r == Range(c)
            IN  \/ c = <<>>
                \/ /\ Increasing(c)
                   /\ IsSubseq(c, Chain(0))
                   /\ \A j \in 0..i : r \subseteq Range(Chain(j))

\* Three nodes, of which the first and the last are on level 1 and the middle
\* one is not.
C12_Witness ==
    /\ Settled
    /\ Len(Chain(0)) = 3
    /\ Chain(1) = <<Chain(0)[1], Chain(0)[3]>>

----------------------------------------------------------------------------
\* Slot i lies inside the tower allocated for node n.
InTower(n, i) == i \in DOMAIN tower[n]

\* The tower height of node n.
Height(n) == Cardinality(DOMAIN tower[n])

\* The slots <<node, index>> the while loop of find_gt_or_eq_node reads at
\* level i from node x on: the loop condition reads x's slot, and so does
\* the step to the successor.
RECURSIVE AdvanceReads(_, _, _)
AdvanceReads(x, i, k) ==
    {<<x, i>>} \cup
        IF InTower(x, i) /\ tower[x][i] # None /\ key[tower[x][i]] < k
        THEN AdvanceReads(tower[x][i], i, k)
        ELSE {}

\* The slots the for loop reads over the levels n-1, ..., 0 from node x on,
\* and the slot of the final `x.tower[0]`.
RECURSIVE DescendReads(_, _, _)
DescendReads(x, n, k) ==
    IF n = 0
    THEN {<<x, 0>>}
    ELSE AdvanceReads(x, n - 1, k) \cup DescendReads(Advance(x, n - 1, k), n - 1, k)

\* The slots the splice loop of insert reads and writes after a search that
\* left `update` and a draw of the height lvl: those of the predecessors.
SpliceSlots(update, lvl) ==
    LET u == ExtendUpdate(update, lvl)
    IN  {<<u[i], i>> : i \in 0..(lvl - 1)}

\* C14: a node is the target of a level-i link only if its tower is taller
\* than i, and every slot that find_gt_or_eq_node, insert and drop index
\* lies inside the tower of its node (the head's has MAX_LEVEL slots).
C14_TowerIndexingStaysInside ==
    head # None =>
        /\ \A n \in nodes : \A i \in DOMAIN tower[n] :
              tower[n][i] # None => InTower(tower[n][i], i)
        /\ Height(head) = MAX_LEVEL /\ level <= MAX_LEVEL
        /\ \A n \in nodes : InTower(n, 0)
        /\ Settled =>
              /\ \A t \in Targets : \A a \in DescendReads(head, level, t) :
                    InTower(a[1], a[2])
              /\ \A k \in Keys :
                    LET update == find_gt_or_eq_node(k).update
                    IN  \A h \in Heads : \A a \in SpliceSlots(update, rand_lvl(h)) :
                            a[1] # None /\ InTower(a[1], a[2])
              /\ \A h \in Heads : DOMAIN EmptyTower(rand_lvl(h)) = 0..(rand_lvl(h) - 1)

\* A node one level tall stands between two nodes two levels tall, and a
\* search passes over it on level 1.
C14_Witness ==
    /\ phase = "live"
    /\ size = 3
    /\ \E n \in Real :
          /\ Height(n) = 1
          /\ Chain(0)[2] = n
          /\ Chain(1) = <<Chain(0)[1], Chain(0)[3]>>
          /\ <<Chain(0)[1], 1>> \in DescendReads(head, level, key[Chain(0)[3]] + 1)

\* C19: in insert of an absent key, update[i] is a node for every i below the
\* drawn height, so no unwrap of update[i] in the splice loop fails: insert
\* panics only when the allocator returned null.
C19_UpdateIsSetBelowDrawnHeight ==
    /\ phase = "live" =>
          \A k \in Keys : ~Hit(find_gt_or_eq_node(k), k) =>
              \A h \in Heads : \A i \in 0..(rand_lvl(h) - 1) :
                  ExtendUpdate(find_gt_or_eq_node(k).update, rand_lvl(h))[i] \in nodes
    /\ phase = "panicked" => lastOp.allocFail

\* The first node went in two levels tall: update[1] was set to the head by
\* the extension, update[0] by the search.
C19_Witness ==
    /\ phase = "live"
    /\ size = 1
    /\ level = 2
    /\ lastOp.op = "insert" /\ ~lastOp.hit /\ ~lastOp.allocFail

----------------------------------------------------------------------------
\* The largest tower height among the real nodes, 1 when there is none.
TallestReal ==
    IF Real = {} THEN 1
    ELSE CHOOSE h \in {Height(n) : n \in Real} : \A n \in Real : Height(n) <= h

\* C15: level never decreases, and it changes in a step only when the step is
\* an insert that adds a node whose drawn height exceeds the level, and then
\* it becomes that height; upserts, lookups and inserts that add no node
\* leave it unchanged.
C15_LevelChangesOnlyWithATallerNode ==
    [][phase # "none" =>
          /\ level' >= level
          /\ level' # level =>
                /\ lastOp'.op = "insert"
                /\ \E x \in nodes' \ nodes : Height(x)' = level' /\ level' > level
      ]_vars

\* C16: between operations level is the largest tower height among the real
\* nodes, 1 when there is none; so 1 <= level <= MAX_LEVEL and every head
\* link at an index >= level is empty.
C16_LevelIsTallestTower ==
    Settled =>
        /\ level = TallestReal
        /\ 1 <= level /\ level <= MAX_LEVEL
        /\ \A i \in Levels : i >= level => tower[head][i] = None

----------------------------------------------------------------------------
\* C17: rand_lvl always terminates, after at most MAX_LEVEL - 1 flips, and
\* returns 1 plus the number of leading heads, capped at MAX_LEVEL: a height
\* in 1..MAX_LEVEL.
C17_RandLvlTerminatesInRange ==
    /\ [](/\ rl.flips <= MAX_LEVEL - 1
          /\ 1 <= rl.level /\ rl.level <= MAX_LEVEL
          /\ rl.pc = "done" =>
                /\ rl.level = IF rl.src + 1 < MAX_LEVEL THEN rl.src + 1 ELSE MAX_LEVEL
                /\ rl.level = rand_lvl(rl.src))
    /\ <>(rl.pc = "done")

\* The source gave more heads than there are levels: the loop ended at
\* MAX_LEVEL after MAX_LEVEL - 1 flips.
C17_Witness ==
    /\ rl.pc = "done"
    /\ rl.src > MAX_LEVEL
    /\ rl.level = MAX_LEVEL
    /\ rl.flips = MAX_LEVEL - 1

----------------------------------------------------------------------------
\* C18: for every key and value size and alignment and every height in
\* 1..MAX_LEVEL, the size Node::alloc requests covers the node: it is at
\* least the offset of the tower in the #[repr(C)] layout, padding included,
\* plus `height` link slots, so slot height - 1 lies inside the allocation.
C18_AllocCoversNode ==
    nl.pc = "done" =>
        nl.size >= OffsetOfTower(nl.ksize, nl.vsize, nl.valign)
                       + nl.height * SizeOfLink

----------------------------------------------------------------------------
\* The nodes whose splice is under way: allocated, not yet linked at every
\* level of their tower.
Splicing == {calls[c].x : c \in {d \in DOMAIN calls : calls[d].pc \in {"read", "write"}}} \ {None}

\* C13: while the single owner's insert splices a node, after every single
\* link write every level chain from the head is strictly increasing and ends
\* in null, every node inserted before is on the chain of each level of its
\* tower, and every node on a level-i chain is on the level-0 chain.
C13_SpliceKeepsChainsValid ==
    (phase \in {"live", "panicked"} /\ head # None) =>
        \A i \in Levels :
            /\ Increasing(Chain(i))
            /\ Len(Chain(i)) <= Cardinality(Real)
            /\ Range(Chain(i)) \subseteq Range(Chain(0))
            /\ \A n \in Real \ Splicing : InTower(n, i) => n \in Range(Chain(i))

\* Between the two writes at level 1 of a node spliced in between two real
\* nodes: the new node already points at the successor, the predecessor
\* still does.
C13_Witness ==
    /\ phase = "live"
    /\ calls[1].pc = "write"
    /\ calls[1].w = 2
    /\ calls[1].i = 1
    /\ calls[1].tmp # None
    /\ calls[1].update[1] \in Real
    /\ tower[calls[1].x][1] = calls[1].tmp
    /\ tower[calls[1].update[1]][1] = calls[1].tmp
    /\ calls[1].x \in Range(Chain(0))

----------------------------------------------------------------------------
\* No call is under way.
AllIdle == \A c \in DOMAIN calls : calls[c].pc = "idle"

\* A node that a call inserted is not on the level-0 chain.
LostNode == \E n \in Real : n \notin Range(Chain(0))

\* C20: when every call runs to completion before the next starts, between
\* calls every inserted node is on the level-0 chain and size is the number
\* of nodes on it.
C20_SerializedCallsKeepTheList ==
    (DOMAIN calls = {1} /\ phase = "live" /\ head # None /\ AllIdle) =>
        /\ ~LostNode
        /\ size = Len(Chain(0))

\* Two callers with no lock, both calls over: a node one of them inserted is
\* not on the level-0 chain, and size is not the number of nodes on it.
C20_Witness ==
    /\ DOMAIN calls = Callers
    /\ phase = "live"
    /\ head # None
    /\ AllIdle
    /\ LostNode
    /\ size # Len(Chain(0))

====
